---- MODULE Spec2Model ----
(***************************************************************************)
(* Model of the clap-host audio/MIDI engine (src/host/engine.cc).          *)
(*                                                                         *)
(* Two threads share the Engine object without locks:                      *)
(*   - the control (UI) thread runs start(), stop(), loadPlugin(),         *)
(*     unloadPlugin(), the idle tick and the destructor, one at a time;    *)
(*   - the audio driver's thread runs Engine::audioCallback.               *)
(* Each action below is one statement (or one run of statements that the   *)
(* other thread cannot tell apart) of engine.cc, so that every             *)
(* interleaving of the two threads is a behaviour of the model.            *)
(*                                                                         *)
(* assert() is modelled as compiled in: a failed assertion aborts the      *)
(* process, which is recorded in `fault` and disables every action.        *)
(*                                                                         *)
(* The RtAudio / RtMidi drivers and the PluginHost are collaborators whose *)
(* code is not part of engine.cc; they are modelled by their contract:     *)
(*   - the driver may invoke the callback from the moment openStream is    *)
(*     entered (engine.cc:90 "openStream() immediately calls process")     *)
(*     until stopStream, never after the callback returned non-zero, and   *)
(*     closeStream joins the callback thread;                              *)
(*   - every callback of a stream carries the negotiated block size.       *)
(***************************************************************************)
EXTENDS Integers, Sequences, FiniteSets, TLC

(* ---------------------------------------------------------------------- *)
(* Bounds of the model                                                     *)
(* ---------------------------------------------------------------------- *)
\* number of callbacks the driver starts in one behaviour
MaxCallbacks == 2
\* number of MIDI messages the port receives in one behaviour
MaxMidi == 1
\* the latest message translated is MaxDeltaSteps steps of DeltaStepUs late
MaxDeltaSteps == 82

(* ---------------------------------------------------------------------- *)
(* Program constants                                                       *)
(* ---------------------------------------------------------------------- *)
\* engine.cc:88  bufferSize = std::min<int>(32, as.bufferSize())
RequestedFrames == 32
\* engine.cc:91  allocateBuffers(32 * 1024): bytes per buffer
AllocBytes == 32768
\* engine.cc:49  (float *)std::calloc(1, bufferSize): bytes per sample
SizeofFloat == 4
\* engine.cc:100 outParams.nChannels = 2, two input and two output buffers
NumBuffers == 4

\* enum MidiStatus, engine.cc:18-26
MIDI_STATUS_NOTE_OFF == 8
MIDI_STATUS_NOTE_ON == 9
MIDI_STATUS_NOTE_AT == 10
MIDI_STATUS_CC == 11
MIDI_STATUS_PGM_CHANGE == 12
MIDI_STATUS_CHANNEL_AT == 13
MIDI_STATUS_PITCH_BEND == 14

\* block sizes the driver may hand back through &bufferSize (engine.cc:106):
\* the requested size, or a larger one the device insists on
FrameSizes == {RequestedFrames, 2 * RequestedFrames}

\* status bytes the MIDI port may deliver (type nibble, channel nibble)
MidiStatusBytes == {MIDI_STATUS_NOTE_ON * 16 + 1,
                    MIDI_STATUS_CHANNEL_AT * 16,
                    MIDI_STATUS_PITCH_BEND * 16 + 2}

\* engine.cc:185  (deltaMs * _sampleRate) / 1000
MsPerSecond == 1000

\* values of _sampleRate (the member is set outside engine.cc)
SampleRates == {32000, 44100, 48000}

\* engine.cc:184  currentTime - msgTime is a double; the model takes it in
\* steps of DeltaStepUs thousandths of the unit deltaMs is in
DeltaStepUs == 25

BufIds == 1..NumBuffers

VARIABLES
  state,        \* _state: "Stopped" | "Running" | "Stopping"
  bufs,         \* _inputs[0.._1], _outputs[0..1]: "null" | "alloc" | "freed"
  audio,        \* _audio: "none" | "created"
  midiIn,       \* _midiIn: "none" | "unopened" | "open"
  nframes,      \* _nframes
  steadyTime,   \* _steadyTime
  stream,       \* RtAudio stream: "closed" | "open" | "running" | "stopped"
  drvFrames,    \* block size the driver negotiated for the current stream
  midiQueue,    \* messages queued at the MIDI port, oldest first
  midiArrived,  \* number of messages received so far
  activated,    \* PluginHost: activated
  pc,           \* control thread: position
  ret,          \* control thread: caller of the running stop()/unloadPlugin()
  pre,          \* control thread: engine fields at entry of the running call
  calls,        \* control thread: collaborator calls made by the running call
  lastOp,       \* control thread: the call that completed last
  midiOpenFailed, \* the MIDI section of the last start() threw
  cbpc,         \* callback thread: position
  cbFrames,     \* callback thread: frameCount of the running callback
  cbLog,        \* callback thread: collaborator calls of the running callback
  retval,       \* callback thread: value returned by the last callback
  stopSignals,  \* number of times a callback of this stream returned 1
  done,         \* done[f]: callbacks of frameCount f that returned
  cbStarted,    \* callbacks started so far
  corrupt,      \* a callback read or wrote a buffer that was not allocated
  fault,        \* "none", or the assertion / crash that aborted the process
  mem,          \* heap: "ok", or "double_free" / "leak" once one has happened
  started,      \* the last start() to return succeeded, no stop() begun since
  tr,           \* MIDI translation of one message: its inputs and its result
  midiInBuffer  \* _midiInBuffer: the message getMessage() stored last, as
                \* <<status byte>>, or <<>> when it found none

engineVars == <<state, bufs, audio, midiIn, nframes, steadyTime>>
envVars    == <<stream, drvFrames, midiQueue, midiArrived, activated>>
ctlVars    == <<pc, ret, pre, calls, lastOp, midiOpenFailed>>
cbVars     == <<cbpc, cbFrames, cbLog, retval, stopSignals, done, cbStarted,
                corrupt>>
vars == <<state, bufs, audio, midiIn, nframes, steadyTime,
          stream, drvFrames, midiQueue, midiArrived, activated,
          pc, ret, pre, calls, lastOp, midiOpenFailed,
          cbpc, cbFrames, cbLog, retval, stopSignals, done, cbStarted,
          corrupt, fault, mem, started, tr, midiInBuffer>>

(* ---------------------------------------------------------------------- *)
(* Helpers                                                                 *)
(* ---------------------------------------------------------------------- *)
AllBufs(v) == [i \in BufIds |-> v]

\* samples a buffer in state b can hold
Capacity(b) == IF b = "alloc" THEN AllocBytes \div SizeofFloat ELSE 0

\* the engine fields a caller can observe, taken at the entry of a call
Snapshot == [state |-> state, bufs |-> bufs, audio |-> audio,
             midiIn |-> midiIn, nframes |-> nframes,
             steadyTime |-> steadyTime, stream |-> stream,
             activated |-> activated]

\* the value of `pre` while no call is running
NoSnapshot == [state |-> "Stopped", bufs |-> AllBufs("null"), audio |-> "none",
               midiIn |-> "none", nframes |-> 0, steadyTime |-> 0,
               stream |-> "closed", activated |-> FALSE]

\* the collaborator calls of a callback: processBegin calls, one entry per
\* message taken from the port, process calls; and the messages the port
\* received during the callback, in the order of their arrival
NoLog == [begin |-> 0, events |-> <<>>, process |-> 0, arrived |-> <<>>]

\* the process has not aborted
Alive == fault = "none"

(* ---------------------------------------------------------------------- *)
(* Engine::Engine                                                          *)
(* ---------------------------------------------------------------------- *)
\* _steadyTime at construction (spec section 3: "never reset except at
\* construction"); the member is declared in engine.hh
InitialSteadyTime == 0

\* The constructor body sets none of the fields modelled here; the smart
\* pointers start empty and the buffer pointers null.  _nframes is declared
\* in engine.hh: any starting value is allowed for it.
EngineInit ==
  /\ state = "Stopped"
  /\ bufs = AllBufs("null")
  /\ audio = "none"
  /\ midiIn = "none"
  /\ nframes \in FrameSizes \cup {0}
  /\ steadyTime = InitialSteadyTime
  /\ stream = "closed"
  /\ drvFrames = 0
  /\ midiQueue = <<>>
  /\ midiArrived = 0
  /\ activated = FALSE
  /\ pc = "idle"
  /\ ret = "client"
  /\ pre = NoSnapshot
  /\ calls = {}
  /\ lastOp = "other"
  /\ midiOpenFailed = FALSE
  /\ cbpc = "idle"
  /\ cbFrames = 0
  /\ cbLog = NoLog
  /\ retval = -1
  /\ stopSignals = 0
  /\ done = [f \in FrameSizes |-> 0]
  /\ cbStarted = 0
  /\ corrupt = FALSE
  /\ fault = "none"
  /\ mem = "ok"
  /\ started = FALSE
  /\ midiInBuffer = <<>>

\* the value of `tr` while no message is being translated
NoTranslation == [kind |-> "none", frameCount |-> 0, sampleRate |-> 0,
                  deltaUs |-> 0, data1 |-> 0, data2 |-> 0, done |-> FALSE,
                  out |-> 0]

Init == EngineInit /\ tr = NoTranslation

(* ---------------------------------------------------------------------- *)
(* PluginHost collaborator (contract of spec section 6)                    *)
(* ---------------------------------------------------------------------- *)
\* activate(sampleRate, blockSize): the collaborator expects process calls
HostActivate == TRUE
\* deactivate(): the collaborator stops expecting process calls
HostDeactivate == FALSE

(* ---------------------------------------------------------------------- *)
(* Engine::allocateBuffers / Engine::freeBuffers                           *)
(* ---------------------------------------------------------------------- *)
\* the heap after free() of the four pointers b: freeing a pointer that was
\* freed already is a double free (free(nullptr) does nothing)
HeapAfterFree(m, b) ==
  IF m = "ok" /\ (\E i \in BufIds : b[i] = "freed") THEN "double_free" ELSE m

\* the heap after the four pointers b are overwritten: a block that is still
\* allocated and whose pointer is lost is a leak
HeapAfterOverwrite(m, b) ==
  IF m = "ok" /\ (\E i \in BufIds : b[i] = "alloc") THEN "leak" ELSE m

\* a freeBuffers() that frees nothing and keeps the pointers
FreeBuffers_Leak(b) == b

\* a freeBuffers() that frees the blocks and keeps the dangling pointers
FreeBuffers_NoNull(b) ==
  [i \in BufIds |-> IF b[i] = "alloc" THEN "freed" ELSE b[i]]

\* free() x4, then the four pointers are set to nullptr
FreeBuffers(b) == AllBufs("null")

\* freeBuffers(), then calloc() x4
AllocateBuffers(b) == [i \in BufIds |-> "alloc"]

(* ---------------------------------------------------------------------- *)
(* Engine::start                                                           *)
(* ---------------------------------------------------------------------- *)
\* a start() without its precondition
StartPrecondition_Any == TRUE

\* assert(_state == kStateStopped)
StartPrecondition == state = "Stopped"

\* the call: the assertion either lets start() proceed or aborts
StartCall ==
  /\ Alive /\ pc = "idle"
  /\ IF StartPrecondition
        THEN /\ pc' = "start_midi"
             /\ ret' = "client"
             /\ pre' = Snapshot
             /\ calls' = {}
             /\ fault' = fault
        ELSE /\ fault' = "start_precondition"
             /\ UNCHANGED <<pc, ret, pre, calls>>
  /\ UNCHANGED <<engineVars, envVars, lastOp, midiOpenFailed, cbVars>>
  /\ UNCHANGED <<mem, started, tr>>
  /\ UNCHANGED midiInBuffer

\* a catch block that keeps the RtMidiIn object whose port did not open
MidiCatch_Keep == "unopened"

\* catch (...) { _midiIn.reset(); } of the MIDI section
MidiCatch == "none"

\* the MIDI try block: the port opens, or an exception resets the handle
StartMidi ==
  /\ Alive /\ pc = "start_midi"
  /\ \E ok \in BOOLEAN :
       /\ midiIn' = IF ok THEN "open" ELSE MidiCatch
       /\ midiOpenFailed' = ~ok
  /\ midiQueue' = <<>>
  /\ calls' = calls \cup {"openPort"}
  /\ pc' = "start_alloc"
  /\ UNCHANGED <<state, bufs, audio, nframes, steadyTime, stream, drvFrames,
                 midiArrived, activated, ret, pre, lastOp, cbVars,
                 fault>>
  /\ UNCHANGED <<mem, started, tr>>
  /\ UNCHANGED midiInBuffer

\* allocateBuffers(32 * 1024), before the stream is opened
StartAlloc ==
  /\ Alive /\ pc = "start_alloc"
  /\ bufs' = AllocateBuffers(bufs)
  /\ calls' = calls \cup {"calloc"}
  /\ pc' = "start_new"
  /\ UNCHANGED <<state, audio, midiIn, nframes, steadyTime, envVars, ret, pre,
                 lastOp, midiOpenFailed, cbVars, fault>>
  /\ mem' = HeapAfterOverwrite(HeapAfterFree(mem, bufs), FreeBuffers(bufs))
  /\ UNCHANGED <<started, tr>>
  /\ UNCHANGED midiInBuffer

\* _audio.reset(); _audio = make_unique<RtAudio>(getCompiledApiByName(..))
StartNewAudio ==
  /\ Alive /\ pc = "start_new"
  /\ \E ok \in BOOLEAN :
       /\ audio' = IF ok THEN "created" ELSE "none"
       /\ pc' = IF ok THEN "start_open" ELSE "start_catch"
  /\ UNCHANGED <<state, bufs, midiIn, nframes, steadyTime, envVars, ret, pre,
                 calls, lastOp, midiOpenFailed, cbVars, fault>>
  /\ UNCHANGED <<mem, started, tr>>
  /\ UNCHANGED midiInBuffer

\* _audio->openStream(...) is entered: it throws, or the driver settles on
\* a block size and the stream exists from here on
StartOpenStream ==
  /\ Alive /\ pc = "start_open"
  /\ calls' = calls \cup {"openStream"}
  /\ \/ /\ pc' = "start_catch"
        /\ UNCHANGED <<stream, drvFrames, stopSignals>>
     \/ \E f \in FrameSizes :
          /\ stream' = "open"
          /\ drvFrames' = f
          /\ stopSignals' = 0
          /\ pc' = "start_opened"
  /\ UNCHANGED <<engineVars, midiQueue, midiArrived, activated, ret,
                 pre, lastOp, midiOpenFailed, cbpc, cbFrames, cbLog, retval,
                 done, cbStarted, corrupt, fault>>
  /\ UNCHANGED <<mem, started, tr>>
  /\ UNCHANGED midiInBuffer

\* openStream returns; _nframes = bufferSize
StartOpened ==
  /\ Alive /\ pc = "start_opened"
  /\ nframes' = drvFrames
  /\ pc' = "start_running"
  /\ UNCHANGED <<state, bufs, audio, midiIn, steadyTime, envVars, ret, pre,
                 calls, lastOp, midiOpenFailed, cbVars, fault>>
  /\ UNCHANGED <<mem, started, tr>>
  /\ UNCHANGED midiInBuffer

\* a start() that goes on without recording that it runs
StartRunning_Skip ==
  /\ Alive /\ pc = "start_running"
  /\ pc' = "start_setPorts"
  /\ UNCHANGED <<engineVars, envVars, ret, pre, calls, lastOp,
                 midiOpenFailed, cbVars, fault>>
  /\ UNCHANGED <<mem, started, tr>>
  /\ UNCHANGED midiInBuffer

\* _state = kStateRunning
StartRunning ==
  /\ Alive /\ pc = "start_running"
  /\ state' = "Running"
  /\ pc' = "start_setPorts"
  /\ UNCHANGED <<bufs, audio, midiIn, nframes, steadyTime, envVars, ret, pre,
                 calls, lastOp, midiOpenFailed, cbVars, fault>>
  /\ UNCHANGED <<mem, started, tr>>
  /\ UNCHANGED midiInBuffer

\* _pluginHost->setPorts(2, _inputs, 2, _outputs), which may throw
StartSetPorts ==
  /\ Alive /\ pc = "start_setPorts"
  /\ calls' = calls \cup {"setPorts"}
  /\ \E ok \in BOOLEAN : pc' = IF ok THEN "start_activate" ELSE "start_catch"
  /\ UNCHANGED <<engineVars, envVars, ret, pre, lastOp, midiOpenFailed,
                 cbVars, fault>>
  /\ UNCHANGED <<mem, started, tr>>
  /\ UNCHANGED midiInBuffer

\* _pluginHost->activate(as.sampleRate(), _nframes), which may throw
StartActivate ==
  /\ Alive /\ pc = "start_activate"
  /\ calls' = calls \cup {"activate"}
  /\ \E ok \in BOOLEAN :
       /\ activated' = IF ok THEN HostActivate ELSE activated
       /\ pc' = IF ok THEN "start_startStream" ELSE "start_catch"
  /\ UNCHANGED <<engineVars, stream, drvFrames, midiQueue, midiArrived,
                 ret, pre, lastOp, midiOpenFailed, cbVars, fault>>
  /\ UNCHANGED <<mem, started, tr>>
  /\ UNCHANGED midiInBuffer

\* _audio->startStream(), which may throw
StartStartStream ==
  /\ Alive /\ pc = "start_startStream"
  /\ calls' = calls \cup {"startStream"}
  /\ \E ok \in BOOLEAN :
       /\ stream' = IF ok /\ stream = "open" THEN "running" ELSE stream
       /\ pc' = IF ok THEN "start_ret" ELSE "start_catch"
  /\ UNCHANGED <<engineVars, drvFrames, midiQueue, midiArrived, activated,
                 ret, pre, lastOp, midiOpenFailed, cbVars, fault>>
  /\ UNCHANGED <<mem, started, tr>>
  /\ UNCHANGED midiInBuffer

\* a catch block that swallows the exception without calling stop()
StartCatch_NoStop ==
  /\ Alive /\ pc = "start_catch"
  /\ ret' = "start"
  /\ pc' = "start_ret"
  /\ UNCHANGED <<engineVars, envVars, pre, calls, lastOp, midiOpenFailed,
                 cbVars, fault>>
  /\ UNCHANGED <<mem, started, tr>>
  /\ UNCHANGED midiInBuffer

\* catch (...) { stop(); } of the audio section
StartCatch ==
  /\ Alive /\ pc = "start_catch"
  /\ ret' = "start"
  /\ pc' = "stop_deactivate"
  /\ UNCHANGED <<engineVars, envVars, pre, calls, lastOp, midiOpenFailed,
                 cbVars, fault>>
  /\ UNCHANGED <<mem, started, tr>>
  /\ UNCHANGED midiInBuffer

\* start() returns to its caller
StartReturn ==
  /\ Alive /\ pc = "start_ret"
  /\ pc' = "idle"
  /\ lastOp' = IF ret = "start" THEN "start_failed" ELSE "start"
  /\ ret' = "client"
  /\ pre' = NoSnapshot
  /\ calls' = {}
  /\ UNCHANGED <<engineVars, envVars, midiOpenFailed, cbVars, fault>>
  /\ started' = (ret # "start")
  /\ UNCHANGED <<mem, tr>>
  /\ UNCHANGED midiInBuffer

(* ---------------------------------------------------------------------- *)
(* Engine::stop                                                            *)
(* ---------------------------------------------------------------------- *)
\* stop() is called by the client of the engine
StopCall ==
  /\ Alive /\ pc = "idle"
  /\ pc' = "stop_deactivate"
  /\ ret' = "client"
  /\ pre' = Snapshot
  /\ calls' = {}
  /\ UNCHANGED <<engineVars, envVars, lastOp, midiOpenFailed, cbVars,
                 fault>>
  /\ started' = FALSE
  /\ UNCHANGED <<mem, tr>>
  /\ UNCHANGED midiInBuffer

\* _pluginHost->deactivate()
StopDeactivate ==
  /\ Alive /\ pc = "stop_deactivate"
  /\ activated' = HostDeactivate
  /\ calls' = calls \cup {"deactivate"}
  /\ pc' = "stop_stopping"
  /\ UNCHANGED <<engineVars, stream, drvFrames, midiQueue, midiArrived,
                 ret, pre, lastOp, midiOpenFailed, cbVars, fault>>
  /\ UNCHANGED <<mem, started, tr>>
  /\ UNCHANGED midiInBuffer

\* if (_state == kStateRunning) _state = kStateStopping
\* a stop() that requests the stop whatever the state is
StopRequest_Always(s) == "Stopping"

\* if (_state == kStateRunning) _state = kStateStopping
StopRequest(s) == IF s = "Running" THEN "Stopping" ELSE s

StopStopping ==
  /\ Alive /\ pc = "stop_stopping"
  /\ state' = StopRequest(state)
  /\ pc' = "stop_audio"
  /\ UNCHANGED <<bufs, audio, midiIn, nframes, steadyTime, envVars, ret, pre,
                 calls, lastOp, midiOpenFailed, cbVars, fault>>
  /\ UNCHANGED <<mem, started, tr>>
  /\ UNCHANGED midiInBuffer

\* if (_audio) { if (_audio->isStreamOpen()) { _audio->stopStream(); ..
StopStream ==
  /\ Alive /\ pc = "stop_audio"
  /\ IF audio = "none"
        THEN /\ pc' = "stop_midi"
             /\ UNCHANGED <<stream, calls>>
        ELSE IF stream = "closed"
                THEN /\ pc' = "stop_audioReset"
                     /\ UNCHANGED <<stream, calls>>
                ELSE /\ stream' = "stopped"
                     /\ calls' = calls \cup {"stopStream"}
                     /\ pc' = "stop_closeStream"
  /\ UNCHANGED <<engineVars, drvFrames, midiQueue, midiArrived, activated,
                 ret, pre, lastOp, midiOpenFailed, cbVars, fault>>
  /\ UNCHANGED <<mem, started, tr>>
  /\ UNCHANGED midiInBuffer

\* _audio->closeStream(): returns once the callback thread has ended
StopCloseStream ==
  /\ Alive /\ pc = "stop_closeStream"
  /\ cbpc = "idle"
  /\ stream' = "closed"
  /\ drvFrames' = 0
  /\ retval' = -1
  /\ calls' = calls \cup {"closeStream"}
  /\ pc' = "stop_audioReset"
  /\ UNCHANGED <<engineVars, midiQueue, midiArrived, activated, ret,
                 pre, lastOp, midiOpenFailed, cbpc, cbFrames, cbLog,
                 stopSignals, done, cbStarted, corrupt, fault>>
  /\ UNCHANGED <<mem, started, tr>>
  /\ UNCHANGED midiInBuffer

\* _audio.reset()
StopAudioReset ==
  /\ Alive /\ pc = "stop_audioReset"
  /\ audio' = "none"
  /\ stopSignals' = 0
  /\ pc' = "stop_midi"
  /\ UNCHANGED <<state, bufs, midiIn, nframes, steadyTime, envVars, ret, pre,
                 calls, lastOp, midiOpenFailed, cbpc, cbFrames, cbLog, retval,
                 done, cbStarted, corrupt, fault>>
  /\ UNCHANGED <<mem, started, tr>>
  /\ UNCHANGED midiInBuffer

\* a stop() that leaves the MIDI port alone
StopMidi_Skip ==
  /\ Alive /\ pc = "stop_midi"
  /\ pc' = "stop_free"
  /\ UNCHANGED <<engineVars, envVars, ret, pre, calls, lastOp, midiOpenFailed,
                 cbVars, fault>>
  /\ UNCHANGED <<mem, started, tr>>
  /\ UNCHANGED midiInBuffer

\* if (_midiIn) { if (_midiIn->isPortOpen()) _midiIn->closePort();
\*                _midiIn.reset(); }
StopMidi ==
  /\ Alive /\ pc = "stop_midi"
  /\ midiIn' = "none"
  /\ midiQueue' = <<>>
  /\ calls' = IF midiIn = "open" THEN calls \cup {"closePort"} ELSE calls
  /\ pc' = "stop_free"
  /\ UNCHANGED <<state, bufs, audio, nframes, steadyTime, stream, drvFrames,
                 midiArrived, activated, ret, pre, lastOp,
                 midiOpenFailed, cbVars, fault>>
  /\ UNCHANGED <<mem, started, tr>>
  /\ UNCHANGED midiInBuffer

\* freeBuffers()
StopFree ==
  /\ Alive /\ pc = "stop_free"
  /\ bufs' = FreeBuffers(bufs)
  /\ pc' = "stop_stopped"
  /\ UNCHANGED <<state, audio, midiIn, nframes, steadyTime, envVars, ret, pre,
                 calls, lastOp, midiOpenFailed, cbVars, fault>>
  /\ mem' = HeapAfterFree(mem, bufs)
  /\ UNCHANGED <<started, tr>>
  /\ UNCHANGED midiInBuffer

\* a stop() that ends in the wrong state
StopFinalState_Stopping == "Stopping"

\* the state stop() ends in: kStateStopped
StopFinalState == "Stopped"

\* _state = kStateStopped
StopStopped ==
  /\ Alive /\ pc = "stop_stopped"
  /\ state' = StopFinalState
  /\ pc' = "stop_ret"
  /\ UNCHANGED <<bufs, audio, midiIn, nframes, steadyTime, envVars, ret, pre,
                 calls, lastOp, midiOpenFailed, cbVars, fault>>
  /\ UNCHANGED <<mem, started, tr>>
  /\ UNCHANGED midiInBuffer

\* stop() returns: to the client, to the catch block of start(), or to the
\* destructor, which goes on with unloadPlugin()
StopReturn ==
  /\ Alive /\ pc = "stop_ret"
  /\ pc' = CASE ret = "client" -> "idle"
             [] ret = "start" -> "start_ret"
             [] ret = "dtor" -> "unload_host"
  /\ lastOp' = IF ret = "client" THEN "stop" ELSE lastOp
  /\ pre' = IF ret = "client" THEN NoSnapshot ELSE pre
  /\ calls' = IF ret = "client" THEN {} ELSE calls
  /\ UNCHANGED <<engineVars, envVars, ret, midiOpenFailed, cbVars, fault>>
  /\ UNCHANGED <<mem, started, tr>>
  /\ UNCHANGED midiInBuffer

(* ---------------------------------------------------------------------- *)
(* Engine::loadPlugin, Engine::unloadPlugin, Engine::callPluginIdle,       *)
(* Engine::~Engine                                                         *)
(* ---------------------------------------------------------------------- *)
\* _pluginHost->load(path, plugin_index); setParentWindow on success
LoadPlugin ==
  /\ Alive /\ pc = "idle"
  /\ lastOp' = "other"
  /\ UNCHANGED <<engineVars, stream, drvFrames, midiQueue, midiArrived,
                 activated, pc, ret, pre, calls, midiOpenFailed, cbVars,
                 fault>>
  /\ UNCHANGED <<mem, started, tr>>
  /\ UNCHANGED midiInBuffer

\* unloadPlugin() is called by the client of the engine
UnloadCall ==
  /\ Alive /\ pc = "idle"
  /\ pc' = "unload_host"
  /\ ret' = "client"
  /\ pre' = Snapshot
  /\ calls' = {}
  /\ UNCHANGED <<engineVars, envVars, lastOp, midiOpenFailed, cbVars,
                 fault>>
  /\ UNCHANGED <<mem, started, tr>>
  /\ UNCHANGED midiInBuffer

\* _pluginHost->unload()
UnloadHost ==
  /\ Alive /\ pc = "unload_host"
  /\ calls' = calls \cup {"unload"}
  /\ pc' = "unload_free"
  /\ UNCHANGED <<engineVars, stream, drvFrames, midiQueue, midiArrived,
                 activated, ret, pre, lastOp, midiOpenFailed, cbVars,
                 fault>>
  /\ UNCHANGED <<mem, started, tr>>
  /\ UNCHANGED midiInBuffer

\* free(_inputs[0]); free(_inputs[1]); free(_outputs[0]); free(_outputs[1])
UnloadFreed(b) == [i \in BufIds |-> IF b[i] = "alloc" THEN "freed" ELSE b[i]]

UnloadFree ==
  /\ Alive /\ pc = "unload_free"
  /\ bufs' = UnloadFreed(bufs)
  /\ pc' = "unload_null"
  /\ UNCHANGED <<state, audio, midiIn, nframes, steadyTime, envVars, ret, pre,
                 calls, lastOp, midiOpenFailed, cbVars, fault>>
  /\ mem' = HeapAfterFree(mem, bufs)
  /\ UNCHANGED <<started, tr>>
  /\ UNCHANGED midiInBuffer

\* _inputs[0] = nullptr; ... _outputs[1] = nullptr
UnloadNull ==
  /\ Alive /\ pc = "unload_null"
  /\ bufs' = AllBufs("null")
  /\ pc' = "unload_ret"
  /\ UNCHANGED <<state, audio, midiIn, nframes, steadyTime, envVars, ret, pre,
                 calls, lastOp, midiOpenFailed, cbVars, fault>>
  /\ mem' = HeapAfterOverwrite(mem, bufs)
  /\ UNCHANGED <<started, tr>>
  /\ UNCHANGED midiInBuffer

\* unloadPlugin() returns: to the client, or to the destructor, which ends
UnloadReturn ==
  /\ Alive /\ pc = "unload_ret"
  /\ pc' = IF ret = "dtor" THEN "destroyed" ELSE "idle"
  /\ lastOp' = "other"
  /\ ret' = "client"
  /\ pre' = NoSnapshot
  /\ calls' = {}
  /\ UNCHANGED <<engineVars, envVars, midiOpenFailed, cbVars, fault>>
  /\ UNCHANGED <<mem, started, tr>>
  /\ UNCHANGED midiInBuffer

\* if (_pluginHost) _pluginHost->idle(), on the timer of the control thread
CallPluginIdle ==
  /\ Alive /\ pc = "idle"
  /\ lastOp' = "other"
  /\ UNCHANGED <<engineVars, envVars, pc, ret, pre, calls, midiOpenFailed,
                 cbVars, fault>>
  /\ UNCHANGED <<mem, started, tr>>
  /\ UNCHANGED midiInBuffer

\* ~Engine(): stop(); unloadPlugin();
Destroy ==
  /\ Alive /\ pc = "idle"
  /\ pc' = "stop_deactivate"
  /\ ret' = "dtor"
  /\ pre' = Snapshot
  /\ calls' = {}
  /\ UNCHANGED <<engineVars, envVars, lastOp, midiOpenFailed, cbVars,
                 fault>>
  /\ started' = FALSE
  /\ UNCHANGED <<mem, tr>>
  /\ UNCHANGED midiInBuffer

(* ---------------------------------------------------------------------- *)
(* MIDI input port (RtMidiIn queue)                                        *)
(* ---------------------------------------------------------------------- *)
\* the port queues a message received from the device.  Only the drain loop
\* of the callback reads the queue, so a message that arrived earlier is not
\* told apart from one that arrives as the callback gets to the loop.
MidiArrive ==
  /\ Alive /\ midiIn = "open"
  /\ cbpc \in {"begin", "drain"}
  /\ midiArrived < MaxMidi
  /\ \E m \in MidiStatusBytes :
       /\ midiQueue' = Append(midiQueue, m)
       /\ cbLog' = [cbLog EXCEPT !.arrived = Append(@, m)]
  /\ midiArrived' = midiArrived + 1
  /\ UNCHANGED <<engineVars, stream, drvFrames, activated, ctlVars,
                 cbpc, cbFrames, retval, stopSignals, done, cbStarted,
                 corrupt, fault>>
  /\ UNCHANGED <<mem, started, tr>>
  /\ UNCHANGED midiInBuffer

(* ---------------------------------------------------------------------- *)
(* Engine::audioCallback                                                   *)
(* ---------------------------------------------------------------------- *)
\* assert(thiz->_inputs[0] != nullptr); ... assert(_outputs[1] != nullptr)
CallbackBuffersOk == \A i \in BufIds : bufs[i] # "null"

\* assert(frameCount == thiz->_nframes)
CallbackFramesOk(frameCount) == frameCount = nframes

\* the driver invokes the callback; the entry assertions pass or abort.
\* No input stream is requested (engine.cc:103), so `in` is null and the
\* input copy loop is skipped.
CallbackEnter ==
  /\ Alive /\ cbpc = "idle"
  /\ stream \in {"open", "running"}
  /\ cbStarted < MaxCallbacks
  /\ cbStarted' = cbStarted + 1
  /\ cbFrames' = drvFrames
  /\ cbLog' = NoLog
  /\ IF ~CallbackBuffersOk
        THEN fault' = "assert_buffer" /\ cbpc' = cbpc
        ELSE IF ~CallbackFramesOk(drvFrames)
                THEN fault' = "assert_nframes" /\ cbpc' = cbpc
                ELSE fault' = fault /\ cbpc' = "begin"
  /\ UNCHANGED <<engineVars, envVars, ctlVars, retval, stopSignals, done,
                 corrupt>>
  /\ UNCHANGED <<mem, started, tr>>
  /\ UNCHANGED midiInBuffer

\* thiz->_pluginHost->processBegin(frameCount)
CallbackProcessBegin ==
  /\ Alive /\ cbpc = "begin"
  /\ cbLog' = [cbLog EXCEPT !.begin = @ + 1]
  /\ cbpc' = "drain"
  /\ UNCHANGED <<engineVars, envVars, ctlVars, cbFrames, retval, stopSignals,
                 done, cbStarted, corrupt, fault>>
  /\ UNCHANGED <<mem, started, tr>>
  /\ UNCHANGED midiInBuffer

\* uint8_t eventType = midiBuf[0] >> 4
EventType(status) == status \div 16

\* uint8_t channel = midiBuf[0] & 0xf
Channel(status) == status % 16

\* switch (eventType): the collaborator entry point called, "none" if the
\* message is only logged
Dispatch(status) ==
  CASE EventType(status) = MIDI_STATUS_NOTE_ON -> "processNoteOn"
    [] EventType(status) = MIDI_STATUS_NOTE_OFF -> "processNoteOff"
    [] EventType(status) = MIDI_STATUS_CC -> "processCC"
    [] EventType(status) = MIDI_STATUS_NOTE_AT -> "processNoteAt"
    [] EventType(status) = MIDI_STATUS_CHANNEL_AT -> "none"
    [] EventType(status) = MIDI_STATUS_PITCH_BEND -> "processPitchBend"
    [] OTHER -> "none"

\* bytes of the message getMessage() hands over, by the type of its status
\* byte: program change and channel aftertouch carry one data byte, system
\* real-time messages none (ignoreTypes(false, false, false) lets them in)
MessageLength(status) ==
  CASE EventType(status) \in {MIDI_STATUS_PGM_CHANGE, MIDI_STATUS_CHANNEL_AT}
         -> 2
    [] EventType(status) = 15 -> 1
    [] OTHER -> 3

\* midiBuf[0], midiBuf[1] and midiBuf[2] are read for every message
BytesRead == 3

\* the log entry of a message taken from the port
Event(status) == [status |-> status, call |-> Dispatch(status),
                  channel |-> Channel(status)]

\* while (thiz->_midiIn && thiz->_midiIn->isPortOpen())
MidiAvailable == midiIn = "open"

\* one turn of the drain loop: leave it when there is no port or when
\* getMessage() stores no message, else dispatch the message it stored, the
\* oldest one.  Reading midiBuf[1] or
\* midiBuf[2] of a shorter message is an access past the vector's size: it
\* yields some byte, or a build with checked containers aborts.
CallbackDrain ==
  /\ Alive /\ cbpc = "drain"
  /\ IF MidiAvailable
        THEN IF midiQueue # <<>>
                THEN /\ midiQueue' = Tail(midiQueue)
                     /\ midiInBuffer' = <<Head(midiQueue)>>
                     /\ cbpc' = cbpc
                     /\ \/ /\ cbLog' = [cbLog EXCEPT !.events =
                                          Append(@, Event(Head(midiQueue)))]
                           /\ fault' = fault
                        \/ /\ MessageLength(Head(midiQueue)) < BytesRead
                           /\ fault' = "midi_bounds"
                           /\ cbLog' = cbLog
                ELSE /\ midiInBuffer' = <<>>
                     /\ cbpc' = "process"
                     /\ UNCHANGED <<midiQueue, cbLog, fault>>
        ELSE /\ cbpc' = "process"
             /\ UNCHANGED <<midiQueue, cbLog, fault, midiInBuffer>>
  /\ UNCHANGED <<engineVars, stream, drvFrames, midiArrived, activated,
                 ctlVars, cbFrames, retval, stopSignals, done, cbStarted,
                 corrupt>>
  /\ UNCHANGED <<mem, started, tr>>

\* thiz->_pluginHost->process()
CallbackProcess ==
  /\ Alive /\ cbpc = "process"
  /\ cbLog' = [cbLog EXCEPT !.process = @ + 1]
  /\ cbpc' = "copy"
  /\ UNCHANGED <<engineVars, envVars, ctlVars, cbFrames, retval, stopSignals,
                 done, cbStarted, corrupt, fault>>
  /\ UNCHANGED <<mem, started, tr>>
  /\ UNCHANGED midiInBuffer

\* the output copy loop reads _outputs[0][i] and _outputs[1][i]; reading
\* through a null or freed pointer is undefined: the process crashes, or the
\* loop gets through with whatever it read
CallbackCopyOut ==
  /\ Alive /\ cbpc = "copy"
  /\ IF bufs[3] = "alloc" /\ bufs[4] = "alloc"
        THEN /\ cbpc' = "time"
             /\ UNCHANGED <<corrupt, fault>>
        ELSE \/ /\ fault' = "crash"
                /\ UNCHANGED <<cbpc, corrupt>>
             \/ /\ corrupt' = TRUE
                /\ cbpc' = "time"
                /\ fault' = fault
  /\ UNCHANGED <<engineVars, envVars, ctlVars, cbFrames, cbLog, retval,
                 stopSignals, done, cbStarted>>
  /\ UNCHANGED <<mem, started, tr>>
  /\ UNCHANGED midiInBuffer

\* a counter of callbacks instead of samples
SteadyAdvance_One(t, frameCount) == t + 1

\* thiz->_steadyTime += frameCount
SteadyAdvance(t, frameCount) == t + frameCount

CallbackSteadyTime ==
  /\ Alive /\ cbpc = "time"
  /\ steadyTime' = SteadyAdvance(steadyTime, cbFrames)
  /\ cbpc' = "switch"
  /\ UNCHANGED <<state, bufs, audio, midiIn, nframes, envVars, ctlVars,
                 cbFrames, cbLog, retval, stopSignals, done, cbStarted,
                 corrupt, fault>>
  /\ UNCHANGED <<mem, started, tr>>
  /\ UNCHANGED midiInBuffer

\* switch (thiz->_state): the value returned, -1 for the asserting default
CallbackSignal(s) ==
  CASE s = "Running" -> 0
    [] s = "Stopping" -> 1
    [] OTHER -> -1

\* a callback that returns the stop signal without leaving Stopping
CallbackNextState_Keep(s) == s

\* a callback that ends every block in Stopped
CallbackNextState_Stop(s) == "Stopped"

\* case kStateStopping: thiz->_state = kStateStopped
CallbackNextState(s) == IF s = "Stopping" THEN "Stopped" ELSE s

\* the final switch and the return to the driver, which stops the stream when
\* the callback returns non-zero
CallbackReturn ==
  /\ Alive /\ cbpc = "switch"
  /\ IF CallbackSignal(state) = -1
        THEN /\ fault' = "assert_unreachable"
             /\ UNCHANGED <<state, retval, stopSignals, stream, done, cbpc,
                            cbFrames, cbLog>>
        ELSE /\ retval' = CallbackSignal(state)
             /\ state' = CallbackNextState(state)
             /\ stopSignals' = IF CallbackSignal(state) = 1
                                  THEN stopSignals + 1 ELSE stopSignals
             /\ stream' = IF CallbackSignal(state) = 1 THEN "stopped"
                                                       ELSE stream
             /\ done' = [done EXCEPT ![cbFrames] = @ + 1]
             /\ cbpc' = "idle"
             /\ cbFrames' = 0
             /\ cbLog' = NoLog
             /\ fault' = fault
  /\ UNCHANGED <<bufs, audio, midiIn, nframes, steadyTime, drvFrames,
                 midiQueue, midiArrived, activated, ctlVars, cbStarted,
                 corrupt>>
  /\ UNCHANGED <<mem, started, tr>>
  /\ UNCHANGED midiInBuffer

(* ---------------------------------------------------------------------- *)
(* Specification                                                           *)
(* ---------------------------------------------------------------------- *)
Next ==
  \/ StartCall \/ StartMidi \/ StartAlloc \/ StartNewAudio
  \/ StartOpenStream \/ StartOpened \/ StartRunning \/ StartSetPorts
  \/ StartActivate \/ StartStartStream \/ StartCatch \/ StartReturn
  \/ StopCall \/ StopDeactivate \/ StopStopping \/ StopStream
  \/ StopCloseStream \/ StopAudioReset \/ StopMidi \/ StopFree
  \/ StopStopped \/ StopReturn
  \/ LoadPlugin \/ UnloadCall \/ UnloadHost \/ UnloadFree \/ UnloadNull
  \/ UnloadReturn \/ CallPluginIdle \/ Destroy
  \/ MidiArrive
  \/ CallbackEnter \/ CallbackProcessBegin \/ CallbackDrain
  \/ CallbackProcess \/ CallbackCopyOut \/ CallbackSteadyTime
  \/ CallbackReturn

Spec == Init /\ [][Next]_vars

TypeOK ==
  /\ state \in {"Stopped", "Running", "Stopping"}
  /\ bufs \in [BufIds -> {"null", "alloc", "freed"}]
  /\ audio \in {"none", "created"}
  /\ midiIn \in {"none", "unopened", "open"}
  /\ nframes \in FrameSizes \cup {0}
  /\ steadyTime \in Nat
  /\ stream \in {"closed", "open", "running", "stopped"}
  /\ drvFrames \in FrameSizes \cup {0}
  /\ Len(midiQueue) <= MaxMidi
  /\ activated \in BOOLEAN
  /\ retval \in {-1, 0, 1}
  /\ cbStarted \in 0..MaxCallbacks
  /\ fault \in {"none", "start_precondition", "assert_buffer",
                "assert_nframes", "assert_unreachable", "crash",
                "midi_bounds"}
  /\ mem \in {"ok", "double_free", "leak"}
  /\ started \in BOOLEAN
  /\ Len(midiInBuffer) <= 1

(* ---------------------------------------------------------------------- *)
(* The MIDI translation arithmetic of the drain loop, as pure functions    *)
(* ---------------------------------------------------------------------- *)
\* a double converted to an integer type: the fraction n/d is truncated
\* toward zero
Truncate(n, d) == IF n >= 0 THEN n \div d ELSE 0 - ((0 - n) \div d)

\* deltaSample = (deltaMs * _sampleRate) / 1000 as an exact fraction: deltaMs
\* is given in thousandths (deltaUs / 1000), so the value is
\* DeltaSampleNum / DeltaSampleDen
DeltaSampleNum(deltaUs, sampleRate) == deltaUs * sampleRate

DeltaSampleDen == 1000 * MsPerSecond

\* if (deltaSample >= frameCount) deltaSample = frameCount - 1;
ClampedDeltaNum(deltaUs, sampleRate, frameCount) ==
  IF DeltaSampleNum(deltaUs, sampleRate) >= frameCount * DeltaSampleDen
     THEN (frameCount - 1) * DeltaSampleDen
     ELSE DeltaSampleNum(deltaUs, sampleRate)

\* int32_t sampleOffset = frameCount - deltaSample;
SampleOffset(deltaUs, sampleRate, frameCount) ==
  Truncate(frameCount * DeltaSampleDen
             - ClampedDeltaNum(deltaUs, sampleRate, frameCount),
           DeltaSampleDen)

\* bit-wise or of two naturals
RECURSIVE BitOr(_, _)
BitOr(a, b) ==
  IF a = 0 THEN b
  ELSE IF b = 0 THEN a
  ELSE (IF a % 2 = 1 \/ b % 2 = 1 THEN 1 ELSE 0)
         + 2 * BitOr(a \div 2, b \div 2)

\* a shift by a whole byte instead of seven bits
ShiftLeft7_Byte(x) == x * 256

\* x << 7 on an int (the bytes are promoted to int: no bit is lost)
ShiftLeft7(x) == x * 128

\* (data2 << 7) | data1
PitchBendValue(data1, data2) == BitOr(ShiftLeft7(data2), data1)

\* the deltas tried: from two steps in the future to MaxDeltaSteps steps late
DeltasUs == {k * DeltaStepUs : k \in (0 - 2)..MaxDeltaSteps}

\* the data bytes tried: every 7-bit value, and two bytes with the top bit set
DataBytes == 0..127 \cup {128, 255}

OffsetInputs ==
  [kind : {"offset"}, frameCount : FrameSizes, sampleRate : SampleRates,
   deltaUs : DeltasUs, data1 : {0}, data2 : {0}, done : {FALSE}, out : {0}]

BendInputs ==
  [kind : {"bend"}, frameCount : {0}, sampleRate : {0}, deltaUs : {0},
   data1 : DataBytes, data2 : DataBytes, done : {FALSE}, out : {0}]

\* an engine at rest and one message to translate
TranslateInit == EngineInit /\ nframes = 0 /\ tr \in OffsetInputs \cup BendInputs

TranslateSampleOffset ==
  /\ tr.kind = "offset" /\ ~tr.done
  /\ tr' = [tr EXCEPT !.done = TRUE,
                      !.out = SampleOffset(tr.deltaUs, tr.sampleRate,
                                           tr.frameCount)]
  /\ UNCHANGED <<engineVars, envVars, ctlVars, cbVars, fault, mem, started>>
  /\ UNCHANGED midiInBuffer

TranslatePitchBend ==
  /\ tr.kind = "bend" /\ ~tr.done
  /\ tr' = [tr EXCEPT !.done = TRUE,
                      !.out = PitchBendValue(tr.data1, tr.data2)]
  /\ UNCHANGED <<engineVars, envVars, ctlVars, cbVars, fault, mem, started>>
  /\ UNCHANGED midiInBuffer

TranslateNext == TranslateSampleOffset \/ TranslatePitchBend

TranslateSpec == TranslateInit /\ [][TranslateNext]_vars

(* ---------------------------------------------------------------------- *)
(* Positions of the control thread                                         *)
(* ---------------------------------------------------------------------- *)
StartPcs == {"start_midi", "start_alloc", "start_new", "start_open",
             "start_opened", "start_running", "start_setPorts",
             "start_activate", "start_startStream", "start_catch",
             "start_ret"}

StopPcs == {"stop_deactivate", "stop_stopping", "stop_audio",
            "stop_closeStream", "stop_audioReset", "stop_midi", "stop_free",
            "stop_stopped", "stop_ret"}

\* a start() call is running, its catch block's stop() included
InStart == pc \in StartPcs \/ (pc \in StopPcs /\ ret = "start")

\* a start() or stop() call is running
InStartOrStop == pc \in StartPcs \cup StopPcs

BuffersNull == \A i \in BufIds : bufs[i] = "null"

BuffersAllocated == \A i \in BufIds : bufs[i] = "alloc"

(* ---------------------------------------------------------------------- *)
(* C1                                                                      *)
(* ---------------------------------------------------------------------- *)
\* C1: start() is accepted only from Stopped.  Every start() that is running
\* was entered with state = Stopped; a start() called in any other state
\* aborts on its assertion, having opened no device, allocated no buffer and
\* changed no field of the engine.
C1_StartOnlyFromStopped ==
  /\ [](InStart => pre.state = "Stopped")
  /\ [](fault = "start_precondition" =>
          state # "Stopped" /\ pc = "idle" /\ calls = {})
  /\ [][StartCall =>
          \/ state = "Stopped" /\ pc' = "start_midi" /\ fault' = "none"
          \/ /\ state # "Stopped"
             /\ fault' = "start_precondition"
             /\ UNCHANGED <<engineVars, envVars, pc, calls>>]_vars

\* start() was called on a Running engine and aborted
C1_Witness ==
  fault = "start_precondition" /\ state = "Running" /\ BuffersAllocated

(* ---------------------------------------------------------------------- *)
(* C2                                                                      *)
(* ---------------------------------------------------------------------- *)
\* C2: when start() returns after a failure of its audio section, the engine
\* is Stopped, the four buffers are null, the audio stream is closed and its
\* handle released, the MIDI handle is released, the plugin collaborator is
\* not activated, and the precondition of start() holds again.
C2_FailedStartLeavesStopped ==
  (pc = "start_ret" /\ ret = "start") =>
     /\ state = "Stopped"
     /\ BuffersNull
     /\ stream = "closed" /\ audio = "none"
     /\ midiIn = "none"
     /\ ~activated
     /\ state = pre.state /\ bufs = pre.bufs /\ audio = pre.audio
     /\ midiIn = pre.midiIn /\ stream = pre.stream
     /\ activated = pre.activated
     /\ StartPrecondition

\* a start() whose stream had been opened returns after a failure
C2_Witness ==
  /\ pc = "start_ret" /\ ret = "start"
  /\ "openStream" \in calls /\ "closeStream" \in calls
  /\ midiOpenFailed = FALSE

(* ---------------------------------------------------------------------- *)
(* C3                                                                      *)
(* ---------------------------------------------------------------------- *)
\* C3: a MIDI open failure is not fatal.  A start() whose MIDI section threw
\* and whose audio section succeeded returns with state = Running, the four
\* buffers allocated and no MIDI handle; a callback that runs after such a
\* MIDI failure gets to its final switch having called processBegin once,
\* process once and no event entry point.
C3_MidiFailureNotFatal ==
  /\ (pc = "start_ret" /\ ret = "client" /\ midiOpenFailed) =>
        state = "Running" /\ BuffersAllocated /\ midiIn = "none"
  /\ (cbpc = "switch" /\ midiOpenFailed) =>
        cbLog.begin = 1 /\ cbLog.process = 1 /\ cbLog.events = <<>>

\* a callback completes its work after a start() that ended without MIDI
C3_Witness ==
  /\ cbpc = "switch" /\ midiOpenFailed
  /\ pc = "idle" /\ lastOp = "start" /\ state = "Running"

(* ---------------------------------------------------------------------- *)
(* C4                                                                      *)
(* ---------------------------------------------------------------------- *)
\* C4 as stated: a stream that stop() closes on a Running engine has
\* returned the stop-stream signal exactly once.
C4_StopSignalExactlyOnce ==
  (pc = "stop_audioReset" /\ "closeStream" \in calls /\ ret = "client"
     /\ pre.state = "Running") => stopSignals = 1

\* C4: stop() turns Running into Stopping; a callback that returns while the
\* state is Stopping sets Stopped and returns 1; a stream instance returns
\* the stop-stream signal at most once.
C4_StopSignalAtMostOnce ==
  /\ [][(pc = "stop_stopping" /\ pc' # pc /\ state = "Running") =>
          state' = "Stopping"]_vars
  /\ [][(cbpc = "switch" /\ cbpc' = "idle" /\ state = "Stopping") =>
          state' = "Stopped" /\ retval' = 1
            /\ stopSignals' = stopSignals + 1]_vars
  /\ [][(cbpc = "switch" /\ cbpc' = "idle" /\ state = "Running") =>
          state' = "Running" /\ retval' = 0
            /\ stopSignals' = stopSignals]_vars
  /\ [](stopSignals <= 1)
  /\ [](retval = 1 => stopSignals = 1 /\ state = "Stopped")

\* a callback has converted Stopping to Stopped during a stop()
C4_Witness ==
  /\ retval = 1 /\ stopSignals = 1 /\ state = "Stopped"
  /\ pc \in StopPcs /\ pre.state = "Running" /\ stream = "stopped"

(* ---------------------------------------------------------------------- *)
(* C5                                                                      *)
(* ---------------------------------------------------------------------- *)
\* C5 as stated: a stop() entered on a Stopped engine returns with the
\* engine fields unchanged and no collaborator call made.
C5_StopOnStoppedNoCalls ==
  (pc = "stop_ret" /\ ret \in {"client", "dtor"} /\ pre.state = "Stopped") =>
     /\ state = pre.state /\ bufs = pre.bufs /\ audio = pre.audio
     /\ midiIn = pre.midiIn /\ steadyTime = pre.steadyTime
     /\ stream = pre.stream
     /\ calls = {}

\* C5: a stop() entered on a Stopped engine returns with the state, the
\* buffer pointers, the device handles and steadyTime unchanged; it calls
\* nothing on the audio driver or the MIDI port, and on the plugin
\* collaborator it calls deactivate() and nothing else.
C5_StopOnStoppedOnlyDeactivates ==
  (pc = "stop_ret" /\ ret \in {"client", "dtor"} /\ pre.state = "Stopped") =>
     /\ state = pre.state /\ bufs = pre.bufs /\ audio = pre.audio
     /\ midiIn = pre.midiIn /\ steadyTime = pre.steadyTime
     /\ stream = pre.stream /\ activated = pre.activated
     /\ calls = {"deactivate"}

\* stop() returns on an engine that had run and was already stopped
C5_Witness ==
  /\ pc = "stop_ret" /\ ret = "client" /\ pre.state = "Stopped"
  /\ steadyTime > 0

(* ---------------------------------------------------------------------- *)
(* C6                                                                      *)
(* ---------------------------------------------------------------------- *)
\* C6: whatever the state stop() was entered in, it returns with state =
\* Stopped, the audio stream closed and its handle released, the MIDI handle
\* released and the four buffers null; a stop() called right after a stop()
\* returns with all of these as it found them.
C6_StopPostcondition ==
  /\ pc = "stop_ret" =>
        /\ state = "Stopped"
        /\ stream = "closed" /\ audio = "none"
        /\ midiIn = "none"
        /\ BuffersNull
        /\ cbpc = "idle"
  /\ (pc = "stop_ret" /\ ret = "client" /\ lastOp = "stop") =>
        /\ state = pre.state /\ stream = pre.stream /\ audio = pre.audio
        /\ midiIn = pre.midiIn /\ bufs = pre.bufs
        /\ steadyTime = pre.steadyTime /\ activated = pre.activated

\* the second of two stop() calls in a row returns, on an engine that had
\* run callbacks
C6_Witness ==
  pc = "stop_ret" /\ ret = "client" /\ lastOp = "stop" /\ steadyTime > 0

(* ---------------------------------------------------------------------- *)
(* C7                                                                      *)
(* ---------------------------------------------------------------------- *)
\* C7 as stated: in every reachable state, state = Stopped implies that the
\* four buffers are null and neither the audio stream nor the MIDI port is
\* open.
C7_StoppedMeansReleased ==
  state = "Stopped" =>
     BuffersNull /\ stream = "closed" /\ midiIn # "open"

\* C7: whenever no start() or stop() call is running on the control thread,
\* state = Stopped implies that the four buffers are null, the audio stream
\* is closed and its handle released, and the MIDI handle is released.
C7_StoppedMeansReleasedBetweenCalls ==
  (~InStartOrStop /\ state = "Stopped") =>
     BuffersNull /\ stream = "closed" /\ audio = "none" /\ midiIn = "none"

\* the engine is Stopped between calls after a run that had MIDI and audio
C7_Witness ==
  /\ pc = "idle" /\ state = "Stopped" /\ lastOp = "stop"
  /\ steadyTime > 0 /\ midiArrived > 0

(* ---------------------------------------------------------------------- *)
(* C8                                                                      *)
(* ---------------------------------------------------------------------- *)
\* C8: after any sequence of calls and callbacks, state # Stopped implies
\* that the four buffers are allocated and hold at least frameCount samples
\* of every callback the driver makes.
C8_BuffersWhileNotStopped ==
  (pc = "idle" /\ state # "Stopped") =>
     \A i \in BufIds :
        /\ bufs[i] = "alloc"
        /\ Capacity(bufs[i]) >= drvFrames
        /\ Capacity(bufs[i]) >= cbFrames

(* ---------------------------------------------------------------------- *)
(* C9                                                                      *)
(* ---------------------------------------------------------------------- *)
\* the callback is between its entry and the end of its output copy
CallbackUsesBuffers == cbpc \in {"begin", "drain", "process", "copy"}

\* C9: the entry assertions of the callback never fail, and while a callback
\* is between its entry and its output copy the four buffers are allocated.
C9_CallbackBuffersValid ==
  /\ fault # "assert_buffer"
  /\ CallbackUsesBuffers => BuffersAllocated

(* ---------------------------------------------------------------------- *)
(* C10                                                                     *)
(* ---------------------------------------------------------------------- *)
RECURSIVE FramesOf(_, _)
\* the samples of the returned callbacks: the sum of f * d[f] over S
FramesOf(S, d) ==
  IF S = {} THEN 0
  ELSE LET f == CHOOSE x \in S : TRUE
       IN f * d[f] + FramesOf(S \ {f}, d)

\* C10: steadyTime equals the sum of the frameCounts of the callbacks that
\* have returned (N x F when they all had frameCount F); it never decreases,
\* and only the callback changes it: start(), stop(), loadPlugin(),
\* unloadPlugin() and the idle tick leave it as it is.
C10_SteadyTimeCountsSamples ==
  /\ [](cbpc # "switch" => steadyTime = FramesOf(FrameSizes, done))
  /\ [](cbpc = "switch" =>
          steadyTime = FramesOf(FrameSizes, done) + cbFrames)
  /\ [][steadyTime' >= steadyTime]_vars
  /\ [][steadyTime' # steadyTime =>
          cbpc = "time" /\ pc' = pc /\ steadyTime' = steadyTime + cbFrames]_vars

\* callbacks of two block sizes have returned, so two streams have run
C10_Witness ==
  /\ \A f \in FrameSizes : done[f] >= 1
  /\ steadyTime = 3 * RequestedFrames

(* ---------------------------------------------------------------------- *)
(* C11: for every drained message whose delta is >= 0 the sample offset    *)
(* handed to the plugin lies in 0 .. frameCount-1; it is frameCount-1 when *)
(* deltaSample reaches or exceeds frameCount, and frameCount-1 (not        *)
(* frameCount) when the delta is 0.                                        *)
(* ---------------------------------------------------------------------- *)
C11_SampleOffsetInBlock ==
  (tr.kind = "offset" /\ tr.done /\ tr.deltaUs >= 0) =>
     /\ tr.out \in 0..(tr.frameCount - 1)
     /\ (DeltaSampleNum(tr.deltaUs, tr.sampleRate)
           >= tr.frameCount * DeltaSampleDen) => tr.out = tr.frameCount - 1
     /\ tr.deltaUs = 0 => tr.out = tr.frameCount - 1

(* ---------------------------------------------------------------------- *)
(* C14: for a pitch-bend message whose data bytes are both in 0..127 the   *)
(* value handed to processPitchBend is data2*128 + data1 and lies in       *)
(* 0..16383; 0x7F,0x7F gives 0x3FFF and 0,0 gives 0.                       *)
(* ---------------------------------------------------------------------- *)
C14_PitchBend14Bit ==
  (tr.kind = "bend" /\ tr.done /\ tr.data1 <= 127 /\ tr.data2 <= 127) =>
     /\ tr.out = tr.data2 * 128 + tr.data1
     /\ tr.out \in 0..16383
     /\ (tr.data1 = 127 /\ tr.data2 = 127) => tr.out = 16383
     /\ (tr.data1 = 0 /\ tr.data2 = 0) => tr.out = 0

\* the largest bend has been reconstructed
C14_Witness ==
  /\ tr.kind = "bend" /\ tr.done
  /\ tr.data1 = 127 /\ tr.data2 = 127 /\ tr.out = 16383

(* ---------------------------------------------------------------------- *)
(* C12: the destructor (stop(); unloadPlugin();) is safe from every state  *)
(* the control thread can be idle in: its steps trip no assertion, free    *)
(* every allocated buffer exactly once (no double free, no leak), and it   *)
(* ends with state Stopped, both device handles released and the four      *)
(* buffers null.  The only aborts that can interrupt it are those of a     *)
(* callback: one that finds the buffers an earlier unloadPlugin()          *)
(* released, or one that reads past the end of a short MIDI message.       *)
(* ---------------------------------------------------------------------- *)
InDestructor == ret = "dtor"

C12_DestructionSafe ==
  /\ InDestructor =>
       /\ mem = "ok"
       /\ fault \in {"none", "assert_buffer", "crash", "midi_bounds"}
       /\ fault \in {"assert_buffer", "crash"} =>
             pre.bufs # AllBufs("alloc")
  /\ pc = "destroyed" =>
       /\ fault = "none" /\ mem = "ok"
       /\ state = "Stopped"
       /\ stream = "closed" /\ audio = "none" /\ midiIn = "none"
       /\ BuffersNull
       /\ cbpc = "idle"

\* the destructor of a Running engine has released everything
C12_Witness ==
  /\ InDestructor /\ pc = "unload_ret"
  /\ pre.state = "Running" /\ pre.bufs = AllBufs("alloc")
  /\ pre.midiIn = "open"
  /\ state = "Stopped" /\ BuffersNull /\ mem = "ok"

(* ---------------------------------------------------------------------- *)
(* C13: every change of the state is Stopped -> Running (by start()),      *)
(* Running -> Stopping (by stop()), Stopping -> Stopped (by the callback   *)
(* or by stop()) or Running -> Stopped (by stop()); Stopping -> Running    *)
(* and Stopped -> Stopping never occur; and an audio device instance and   *)
(* its stream are created only while none exists, so at most one stream    *)
(* is open at any time.                                                    *)
(* ---------------------------------------------------------------------- *)
StateChangeAllowed ==
  \/ state = "Stopped" /\ state' = "Running" /\ pc \in StartPcs
  \/ state = "Running" /\ state' = "Stopping" /\ pc \in StopPcs
  \/ state = "Stopping" /\ state' = "Stopped"
       /\ (pc \in StopPcs \/ cbpc = "switch")
  \/ state = "Running" /\ state' = "Stopped" /\ pc \in StopPcs

OneStreamInstance ==
  /\ (audio' = "created" /\ pc = "start_new") =>
        (audio = "none" /\ stream = "closed")
  /\ (stream' = "open" /\ stream # "open") =>
        (stream = "closed" /\ pc = "start_open")
  /\ stream # "closed" => audio = "created"

C13_StateTransitions ==
  [][(state' # state => StateChangeAllowed) /\ OneStreamInstance]_vars

\* stop() asked a Running engine to stop and a callback completed the stop,
\* the stream still being open
C13_Witness ==
  /\ pc = "stop_closeStream" /\ pre.state = "Running"
  /\ retval = 1 /\ state = "Stopped" /\ stream # "closed"

(* ---------------------------------------------------------------------- *)
(* C15: whenever a callback is at its final state check the state is       *)
(* Running or Stopping, and the `unreachable' default branch is never      *)
(* taken, callbacks fired during openStream included.                      *)
(* ---------------------------------------------------------------------- *)
C15_FinalCheckReachesNoDefault ==
  /\ cbpc = "switch" => state \in {"Running", "Stopping"}
  /\ fault # "assert_unreachable"

(* ---------------------------------------------------------------------- *)
(* C16: at every callback the driver makes while the stream exists, the    *)
(* frame count equals _nframes, so the entry assertion never fails,        *)
(* callbacks fired before start() has recorded the size included.          *)
(* ---------------------------------------------------------------------- *)
C16_FrameCountIsNegotiated ==
  /\ stream # "closed" => drvFrames = nframes
  /\ fault # "assert_nframes"

(* ---------------------------------------------------------------------- *)
(* C17: a callback calls processBegin once, then takes the pending MIDI    *)
(* messages in the order of their arrival and makes at most one event call *)
(* per message (exactly one for NoteOn, NoteOff, CC, NoteAT and PitchBend, *)
(* with the channel of the status byte; none for ChannelAT, ProgramChange  *)
(* and unknown types), then calls process once; no message is taken twice  *)
(* or skipped, and the drain loop always gets to process().                *)
(* ---------------------------------------------------------------------- *)
EventCallTypes == {MIDI_STATUS_NOTE_ON, MIDI_STATUS_NOTE_OFF, MIDI_STATUS_CC,
                   MIDI_STATUS_NOTE_AT, MIDI_STATUS_PITCH_BEND}

\* the statuses of the messages a callback has taken so far
RECURSIVE TakenStatuses(_)
TakenStatuses(events) ==
  IF events = <<>> THEN <<>>
  ELSE <<Head(events).status>> \o TakenStatuses(Tail(events))

C17_CallbackCallOrder ==
  /\ cbpc = "begin" =>
        cbLog.begin = 0 /\ cbLog.events = <<>> /\ cbLog.process = 0
  /\ cbpc = "drain" => cbLog.begin = 1 /\ cbLog.process = 0
  /\ cbpc = "process" =>
        cbLog.begin = 1 /\ cbLog.process = 0
  /\ cbpc \in {"copy", "time", "switch"} =>
        cbLog.begin = 1 /\ cbLog.process = 1
  /\ cbpc \in {"begin", "drain"} =>
        cbLog.arrived = TakenStatuses(cbLog.events) \o midiQueue
  /\ cbpc \in {"process", "copy", "time", "switch"} =>
        cbLog.arrived = TakenStatuses(cbLog.events)
  /\ \A i \in 1..Len(cbLog.events) :
        /\ cbLog.events[i].channel = cbLog.events[i].status % 16
        /\ cbLog.events[i].call # "none" <=>
              (cbLog.events[i].status \div 16) \in EventCallTypes
  /\ fault # "midi_bounds"

(* ---------------------------------------------------------------------- *)
(* C18: the callback calls processBegin and process only while the         *)
(* collaborator is activated: not before start()'s activate, not after     *)
(* stop()'s deactivate.                                                    *)
(* ---------------------------------------------------------------------- *)
ProcessCalled ==
  \/ cbLog'.begin > cbLog.begin
  \/ cbLog'.process > cbLog.process

C18_ProcessOnlyWhileActivated == [][ProcessCalled => activated]_vars

(* ---------------------------------------------------------------------- *)
(* C19: the state Stopping is visible only while a stop() call is in       *)
(* progress: whenever the control thread executes neither start() nor      *)
(* stop(), the state is Stopped or Running, and it is Running exactly when *)
(* the last start() that returned succeeded and no stop() has begun since. *)
(* ---------------------------------------------------------------------- *)
C19_StoppingOnlyInsideStop ==
  /\ state = "Stopping" => pc \in StopPcs
  /\ ~InStartOrStop =>
        /\ state \in {"Stopped", "Running"}
        /\ state = "Running" <=> started

\* a start() has succeeded, callbacks have run, and no call is in progress
C19_Witness ==
  /\ pc = "idle" /\ state = "Running" /\ started
  /\ lastOp = "start" /\ steadyTime > 0

(* ---------------------------------------------------------------------- *)
(* C20: a callback leaves the buffer pointers, the audio handle, the MIDI  *)
(* port handle and the negotiated block size unchanged; the only engine    *)
(* fields it modifies are steadyTime, by adding frameCount, and state,     *)
(* which it changes from Stopping to Stopped only; the idle tick modifies  *)
(* no engine field.                                                        *)
(* ---------------------------------------------------------------------- *)
CallbackStep ==
  \/ CallbackEnter \/ CallbackProcessBegin \/ CallbackDrain
  \/ CallbackProcess \/ CallbackCopyOut \/ CallbackSteadyTime
  \/ CallbackReturn

CallbackFootprint ==
  /\ UNCHANGED <<bufs, audio, midiIn, nframes>>
  /\ steadyTime' # steadyTime =>
        (cbpc = "time" /\ steadyTime' = steadyTime + cbFrames)
  /\ state' # state => (state = "Stopping" /\ state' = "Stopped")

IdleFootprint == UNCHANGED <<engineVars, midiInBuffer>>

\* as the claim has it: steadyTime and state are the only members written
C20_CallbackWritesTwoFields ==
  [][(CallbackStep => (CallbackFootprint /\ UNCHANGED midiInBuffer))
       /\ (CallPluginIdle => IdleFootprint)]_vars

\* C20, amended: the callback also writes the member _midiInBuffer, in the
\* drain loop only, where getMessage() stores each message it hands over
C20_CallbackFootprint ==
  [][(CallbackStep =>
        /\ CallbackFootprint
        /\ midiInBuffer' # midiInBuffer => (cbpc = "drain" /\ MidiAvailable))
       /\ (CallPluginIdle => IdleFootprint)]_vars

\* a callback has taken a message, added its block to steadyTime and
\* completed a stop, the buffers and handles being what start() made them
C20_Witness ==
  /\ retval = 1 /\ state = "Stopped" /\ steadyTime = nframes
  /\ nframes \in FrameSizes /\ midiArrived > 0 /\ midiQueue = <<>>
  /\ BuffersAllocated /\ audio = "created" /\ midiIn = "open"

====
